---- MODULE Spec2Model ----
(***************************************************************************)
(* State machine of the chat client: the intake form (Landing) and the     *)
(* conversation session controller (the chat page), together with the      *)
(* browser's localStorage key "chatConversationId" and the backend         *)
(* requests in flight.  One step of the model is one run of JavaScript to  *)
(* completion: an event handler or effect up to its first await, or the    *)
(* continuation of an async function after its fetch has settled.  React   *)
(* state is the state the next render shows.                               *)
(***************************************************************************)
EXTENDS Integers, Sequences, FiniteSets, TLC

VARIABLES
    page,            \* route shown: "landing" | "chat"
    data,            \* Landing: useState({name, age, gender, orientation})
    store,           \* localStorage["chatConversationId"], NoId when absent
    net,             \* backend requests in flight (with their closures)
    nextReq,         \* number of the next request (fresh tokens derive from it)
    mounted,         \* chat page: the mount effect has run
    userInput,       \* chat page: useState("")
    messages,        \* chat page: useState([])
    conversationId,  \* chat page: useState(null)
    isLoading,       \* chat page: useState(false)
    error,           \* chat page: useState(null)
    last             \* the step taken last (history variable)

vars == <<page, data, store, net, nextReq, mounted, userInput, messages,
          conversationId, isLoading, error, last>>

chatVars == <<userInput, messages, conversationId, isLoading, error>>

----------------------------------------------------------------------------
(* Bounds *)

\* requests issued in one behaviour (history, create and send together)
MaxReqs == 5

----------------------------------------------------------------------------
(* Values *)

Null == "null"
Undefined == "undefined"

\* an absent conversation id (null in state, a missing key in localStorage)
NoId == 0
\* the id a previous session left in localStorage
StoredId == 1
\* payload.conversation_id of the response to request rid
NewConversationId(rid) == rid + 1

SP == " "
\* texts the user types into the message box
TypedTexts == { <<>>, <<SP>>, <<"h", "i">>, <<SP, "h", "i", SP>> }
\* values of a Landing form field
FieldValues == { <<>>, <<SP>>, <<"x">> }
Fields == {"name", "age", "gender", "orientation"}

RECURSIVE TrimStart(_)
TrimStart(t) ==
    IF t # <<>> /\ Head(t) = SP THEN TrimStart(Tail(t)) ELSE t

RECURSIVE TrimEnd(_)
TrimEnd(t) ==
    IF t # <<>> /\ t[Len(t)] = SP THEN TrimEnd(SubSeq(t, 1, Len(t) - 1)) ELSE t

\* String.prototype.trim
Trim(t) == TrimEnd(TrimStart(t))

\* JavaScript's  a || null  on an attachment
OrNull(a) == IF a \in {Undefined, Null, ""} THEN Null ELSE a

\* new Date().toISOString() of the client
Now == "client-time"

NoMessage ==
    [id |-> <<"none", 0>>, sender |-> "none", content |-> <<>>,
     timestamp |-> "none", attachment |-> Undefined]

\* the history bodies the backend answers with
H1 ==
    [id |-> <<"hist", 1>>, sender |-> "user", content |-> <<"h", "i">>,
     timestamp |-> "T1", attachment |-> Undefined]
H2 ==
    [id |-> <<"hist", 2>>, sender |-> "assistant", content |-> <<"y", "o">>,
     timestamp |-> "T2", attachment |-> "http://media/1"]
HistoryPayloads == { <<>>, <<H1, H2>> }

\* payload of a successful send, for request rid
SendPayloads(rid) ==
    { [id |-> <<"srv", rid>>, content |-> <<"o", "k">>, timestamp |-> "T3",
       attachment |-> a] : a \in {Undefined, "http://media/2"} }

\* the ways a send fails.  body says what the body of a non-2xx response is:
\* a JSON object whose detail is the string text ("detail"), a JSON object
\* whose detail is a list of objects, text being its JSON ("listdetail"), a
\* JSON object without detail ("nodetail"), the JSON value null ("null"), or
\* not JSON ("unparseable").  For a network failure text is the message of
\* the error fetch threw.
SendFailures ==
    { [kind |-> "http", status |-> 500, body |-> "detail", text |-> "Rate limited"],
      [kind |-> "http", status |-> 500, body |-> "detail", text |-> ""],
      [kind |-> "http", status |-> 500, body |-> "listdetail",
       text |-> "[{\"msg\":\"field required\"}]"],
      [kind |-> "http", status |-> 500, body |-> "null", text |-> ""],
      [kind |-> "http", status |-> 500, body |-> "nodetail", text |-> ""],
      [kind |-> "http", status |-> 500, body |-> "unparseable", text |-> ""],
      [kind |-> "network", status |-> 0, body |-> "", text |-> "Failed to fetch"],
      [kind |-> "network", status |-> 0, body |-> "", text |-> ""] }

HttpErrorText(status) ==
    CASE status = 500 -> "HTTP error! status: 500"
      [] OTHER -> "HTTP error! status: ?"

----------------------------------------------------------------------------
(* Requests in flight *)

Request(rid, owner, kind, conv, userMessage, currentInput, before) ==
    [rid |-> rid, owner |-> owner, kind |-> kind, conv |-> conv,
     userMessage |-> userMessage, currentInput |-> currentInput,
     before |-> before]

NoRequest == Request(0, "none", "none", NoId, NoMessage, <<>>, <<>>)

\* a step that applied a response: the payload it carried, as a sequence
LastWith(op, req, payload) == [op |-> op, req |-> req, payload |-> payload]

Last(op, req) == LastWith(op, req, <<>>)

\* the chat page's React state as one record
Cur ==
    [userInput |-> userInput, messages |-> messages,
     conversationId |-> conversationId, isLoading |-> isLoading,
     error |-> error]

Commit(s) ==
    /\ userInput' = s.userInput
    /\ messages' = s.messages
    /\ conversationId' = s.conversationId
    /\ isLoading' = s.isLoading
    /\ error' = s.error

\* useState initial values of the chat page
InitialChat ==
    [userInput |-> <<>>, messages |-> <<>>, conversationId |-> NoId,
     isLoading |-> FALSE, error |-> Null]

InitialData == [f \in Fields |-> <<>>]

Init ==
    /\ page \in {"landing", "chat"}
    /\ data = InitialData
    /\ store \in {NoId, StoredId}
    /\ net = {}
    /\ nextReq = 1
    /\ mounted = FALSE
    /\ userInput = InitialChat.userInput
    /\ messages = InitialChat.messages
    /\ conversationId = InitialChat.conversationId
    /\ isLoading = InitialChat.isLoading
    /\ error = InitialChat.error
    /\ last = Last("init", NoRequest)

----------------------------------------------------------------------------
(* The chat page: what each piece of code does to the React state *)

\* fetchHistory up to its fetch: setIsLoading(true); setError(null)
FetchHistoryBegin(s) ==
    [s EXCEPT !.isLoading = TRUE, !.error = Null]

\* the mapping without the attachment (as src/src/App.jsx has it)
FromHistory_NoAttachment(msg) ==
    [id |-> msg.id, sender |-> msg.sender, content |-> msg.content,
     timestamp |-> msg.timestamp, attachment |-> Null]

\* one message of the history payload as fetchHistory maps it
FromHistory(msg) ==
    [id |-> msg.id, sender |-> msg.sender, content |-> msg.content,
     timestamp |-> msg.timestamp, attachment |-> OrNull(msg.attachment)]

\* fetchHistory, response ok: setMessages(payload.map(...)); finally
FetchHistoryOk(s, payload) ==
    [s EXCEPT !.messages = [i \in 1..Len(payload) |-> FromHistory(payload[i])],
              !.isLoading = FALSE]

\* a 404 handled like any other failed status
FetchHistoryNotFound_AsError(s) ==
    [s EXCEPT !.messages = <<>>, !.isLoading = FALSE,
              !.error = "Failed to load message history. Starting a new chat."]

\* fetchHistory, status 404: setMessages([]); return; finally
FetchHistoryNotFound(s) ==
    [s EXCEPT !.messages = <<>>, !.isLoading = FALSE]

\* startNewConversation up to its fetch
StartNewConversationBegin(s) ==
    [s EXCEPT !.isLoading = TRUE, !.error = Null, !.messages = <<>>]

\* fetchHistory's catch block, which calls startNewConversation() without
\* awaiting it, and then its finally block
FetchHistoryCatch(s) ==
    LET caught == [s EXCEPT
                     !.error = "Failed to load message history. Starting a new chat.",
                     !.messages = <<>>]
        started == StartNewConversationBegin(caught)
    IN  [started EXCEPT !.isLoading = FALSE]

\* success that forgets setConversationId
StartNewConversationOk_KeepsId(s, id) ==
    [s EXCEPT !.isLoading = FALSE]

\* startNewConversation, response ok: setConversationId(id); finally
StartNewConversationOk(s, id) ==
    [s EXCEPT !.conversationId = id, !.isLoading = FALSE]

\* a catch block that forgets setConversationId(null)
StartNewConversationFail_KeepsId(s) ==
    [s EXCEPT !.error = "Could not start new conversation.",
              !.isLoading = FALSE]

\* startNewConversation's catch block and finally
StartNewConversationFail(s) ==
    [s EXCEPT !.error = "Could not start new conversation.",
              !.conversationId = NoId, !.isLoading = FALSE]

\* the guard without its conversationId test
SendRejected_InputOnly(s) ==
    Trim(s.userInput) = <<>>

\* handleSendMessage's guard:  !userInput.trim() || !conversationId
SendRejected(s) ==
    Trim(s.userInput) = <<>> \/ s.conversationId = NoId

\* the optimistic message carrying the text as typed
UserMessage_Untrimmed(s, rid) ==
    [id |-> <<"uuid", rid>>, sender |-> "user", content |-> s.userInput,
     timestamp |-> Now, attachment |-> Undefined]

\* the optimistic message with an id that is not fresh
UserMessage_FixedId(s, rid) ==
    [id |-> <<"uuid", 0>>, sender |-> "user", content |-> Trim(s.userInput),
     timestamp |-> Now, attachment |-> Undefined]

\* the optimistic message; uuidv4() of request rid
UserMessage(s, rid) ==
    [id |-> <<"uuid", rid>>, sender |-> "user", content |-> Trim(s.userInput),
     timestamp |-> Now, attachment |-> Undefined]

\* handleSendMessage from the guard to its fetch
HandleSendMessageBegin(s, rid) ==
    [s EXCEPT !.messages = Append(s.messages, UserMessage(s, rid)),
              !.userInput = <<>>, !.isLoading = TRUE, !.error = Null]

\* the assistant message built from the send payload
AiMessage(payload) ==
    [id |-> payload.id, sender |-> "assistant", content |-> payload.content,
     timestamp |-> payload.timestamp, attachment |-> OrNull(payload.attachment)]

\* handleSendMessage, response ok
HandleSendMessageOk(s, payload) ==
    [s EXCEPT !.messages = Append(s.messages, AiMessage(payload)),
              !.isLoading = FALSE]

\* String(detail), the message  new Error(detail)  gets
DetailToString(resp) ==
    IF resp.body = "listdetail" THEN "[object Object]" ELSE resp.text

\* the message of the Error handleSendMessage throws or catches
ThrownMessage(resp) ==
    IF resp.kind = "http"
    THEN IF resp.body = "null"
         THEN "Cannot read properties of null (reading 'detail')"
         ELSE LET detail ==
                      CASE resp.body = "unparseable" -> "Unknown server error during send."
                        [] resp.body \in {"detail", "listdetail"} -> DetailToString(resp)
                        [] OTHER -> Undefined
              IN  IF detail \in {Undefined, ""} THEN HttpErrorText(resp.status)
                  ELSE detail
    ELSE resp.text

\* err.message || "Failed to get a response. Please try again."
SendErrorText(resp) ==
    IF ThrownMessage(resp) = "" THEN "Failed to get a response. Please try again."
    ELSE ThrownMessage(resp)

RECURSIVE Without(_, _)
\* prevMessages.filter((msg) => msg.id !== id)
Without(msgs, id) ==
    IF msgs = <<>> THEN <<>>
    ELSE IF Head(msgs).id = id THEN Without(Tail(msgs), id)
    ELSE <<Head(msgs)>> \o Without(Tail(msgs), id)

\* a catch block with no finally after it
HandleSendMessageFail_StaysLoading(s, req, resp) ==
    [s EXCEPT !.error = SendErrorText(resp),
              !.messages = Without(s.messages, req.userMessage.id),
              !.userInput = req.currentInput]

\* handleSendMessage's catch block and finally
HandleSendMessageFail(s, req, resp) ==
    [s EXCEPT !.error = SendErrorText(resp),
              !.messages = Without(s.messages, req.userMessage.id),
              !.userInput = req.currentInput,
              !.isLoading = FALSE]

----------------------------------------------------------------------------
(* What the rendered page lets the user do *)

\* the New Chat button:  disabled={isLoading}
NewChatEnabled(s) == ~s.isLoading

\* the message box:  rendered if conversationId; disabled={isLoading || !conversationId}
InputEnabled(s) == s.conversationId # NoId /\ ~s.isLoading

\* the Send button:  disabled={isLoading || !userInput.trim() || !conversationId}
SendEnabled(s) ==
    s.conversationId # NoId /\ ~s.isLoading /\ Trim(s.userInput) # <<>>

ChatReady == page = "chat" /\ mounted

InFlight(owner, kind) == {r \in net : r.owner = owner /\ r.kind = kind}

----------------------------------------------------------------------------
(* Landing (the intake form) *)

\* completeness tested on the raw field values
IsDataComplete_NoTrim(d) == \A f \in Fields : d[f] # <<>>

IsDataComplete(d) == \A f \in Fields : Trim(d[f]) # <<>>

\* the text of the alert() the last step raised on Landing, Null if none:
\* handleSubmit alerts on incomplete data; its catch block only writes to
\* the console
Alerted ==
    IF last.op = "alert" THEN "Please fill in all the details." ELSE Null

\* onChange of one form field
SetData(f, v) ==
    /\ page = "landing"
    /\ data[f] # v
    /\ data' = [data EXCEPT ![f] = v]
    /\ last' = Last("setData", NoRequest)
    /\ UNCHANGED <<page, store, net, nextReq, mounted, chatVars>>

\* handleSubmit up to its fetch
HandleSubmit ==
    /\ page = "landing"
    /\ IF ~IsDataComplete(data)
       THEN /\ last' = Last("alert", NoRequest)
            /\ UNCHANGED <<net, nextReq>>
       ELSE /\ nextReq <= MaxReqs
            /\ LET req == Request(nextReq, "landing", "create", NoId,
                                  NoMessage, <<>>, <<>>)
               IN  /\ net' = net \cup {req}
                   /\ last' = Last("handleSubmit", req)
            /\ nextReq' = nextReq + 1
    /\ UNCHANGED <<page, data, store, mounted, chatVars>>

\* handleSubmit, response ok: localStorage.setItem; navigate("/chat")
HandleSubmitOk(req) ==
    /\ req \in InFlight("landing", "create")
    /\ net' = net \ {req}
    /\ store' = NewConversationId(req.rid)
    /\ IF page = "landing"
       THEN /\ page' = "chat"
            /\ data' = InitialData
            /\ mounted' = FALSE
            /\ Commit(InitialChat)
       ELSE UNCHANGED <<page, data, mounted, chatVars>>
    /\ last' = Last("handleSubmitOk", req)
    /\ UNCHANGED nextReq

\* handleSubmit's catch block: localStorage.removeItem
HandleSubmitFail(req) ==
    /\ req \in InFlight("landing", "create")
    /\ net' = net \ {req}
    /\ store' = NoId
    /\ last' = Last("handleSubmitFail", req)
    /\ UNCHANGED <<page, data, nextReq, mounted, chatVars>>

----------------------------------------------------------------------------
(* The chat page *)

\* a mount effect that starts a conversation when none is stored
MountEffect_AutoStart ==
    /\ page = "chat" /\ ~mounted
    /\ mounted' = TRUE
    /\ nextReq <= MaxReqs
    /\ LET req == IF store # NoId
                  THEN Request(nextReq, "chat", "history", store, NoMessage, <<>>, <<>>)
                  ELSE Request(nextReq, "chat", "create", NoId, NoMessage, <<>>, <<>>)
       IN  /\ net' = net \cup {req}
           /\ last' = Last("mount", req)
    /\ nextReq' = nextReq + 1
    /\ IF store # NoId
       THEN Commit(FetchHistoryBegin([Cur EXCEPT !.conversationId = store]))
       ELSE Commit(StartNewConversationBegin(Cur))
    /\ UNCHANGED <<page, data, store>>

\* the mount effect: read localStorage, restore and fetch history, or wait
MountEffect ==
    /\ page = "chat" /\ ~mounted
    /\ mounted' = TRUE
    /\ IF store # NoId
       THEN /\ nextReq <= MaxReqs
            /\ LET req == Request(nextReq, "chat", "history", store,
                                  NoMessage, <<>>, <<>>)
               IN  /\ net' = net \cup {req}
                   /\ last' = Last("mount", req)
            /\ nextReq' = nextReq + 1
            /\ Commit(FetchHistoryBegin([Cur EXCEPT !.conversationId = store]))
       ELSE /\ Commit([Cur EXCEPT !.conversationId = NoId])
            /\ last' = Last("mount", NoRequest)
            /\ UNCHANGED <<net, nextReq>>
    /\ UNCHANGED <<page, data, store>>

\* the browser reloads the chat page: every request is abandoned and the
\* component starts again from its initial state
Reload ==
    /\ ChatReady
    /\ net' = {}
    /\ mounted' = FALSE
    /\ Commit(InitialChat)
    /\ last' = Last("reload", NoRequest)
    /\ UNCHANGED <<page, data, store, nextReq>>

\* onChange of the message box
ChangeInput(t) ==
    /\ ChatReady
    /\ InputEnabled(Cur)
    /\ userInput # t
    /\ userInput' = t
    /\ last' = Last("changeInput", NoRequest)
    /\ UNCHANGED <<page, data, store, net, nextReq, mounted, messages,
                   conversationId, isLoading, error>>

\* handleSendMessage up to its fetch
HandleSendMessage ==
    IF SendRejected(Cur)
    THEN /\ last' = Last("handleSendMessage", NoRequest)
         /\ UNCHANGED <<page, data, store, net, nextReq, mounted, chatVars>>
    ELSE /\ nextReq <= MaxReqs
         /\ LET req == Request(nextReq, "chat", "send", conversationId,
                               UserMessage(Cur, nextReq), userInput, messages)
            IN  /\ net' = net \cup {req}
                /\ last' = Last("handleSendMessage", req)
         /\ nextReq' = nextReq + 1
         /\ Commit(HandleSendMessageBegin(Cur, nextReq))
         /\ UNCHANGED <<page, data, store, mounted>>

\* the user submits the message form
ClickSend ==
    /\ ChatReady
    /\ SendEnabled(Cur)
    /\ HandleSendMessage

\* handleSendMessage called while the form would not submit
CallHandleSendMessage ==
    /\ ChatReady
    /\ ~SendEnabled(Cur)
    /\ HandleSendMessage

\* startNewConversation up to its fetch, as the New Chat button calls it
ClickNewChat ==
    /\ ChatReady
    /\ NewChatEnabled(Cur)
    /\ nextReq <= MaxReqs
    /\ LET req == Request(nextReq, "chat", "create", NoId, NoMessage, <<>>, <<>>)
       IN  /\ net' = net \cup {req}
           /\ last' = Last("startNewConversation", req)
    /\ nextReq' = nextReq + 1
    /\ Commit(StartNewConversationBegin(Cur))
    /\ UNCHANGED <<page, data, store, mounted>>

\* the history fetch answers 200 with a well-formed body
HistoryOk(req, payload) ==
    /\ req \in InFlight("chat", "history")
    /\ net' = net \ {req}
    /\ Commit(FetchHistoryOk(Cur, payload))
    /\ last' = LastWith("historyOk", req, payload)
    /\ UNCHANGED <<page, data, store, nextReq, mounted>>

\* a 404 that also removes the stored id (the line fetchHistory has
\* commented out)
HistoryNotFound_ClearsStore(req) ==
    /\ req \in InFlight("chat", "history")
    /\ net' = net \ {req}
    /\ Commit(FetchHistoryNotFound(Cur))
    /\ store' = NoId
    /\ last' = Last("historyNotFound", req)
    /\ UNCHANGED <<page, data, nextReq, mounted>>

\* the history fetch answers 404
HistoryNotFound(req) ==
    /\ req \in InFlight("chat", "history")
    /\ net' = net \ {req}
    /\ Commit(FetchHistoryNotFound(Cur))
    /\ last' = Last("historyNotFound", req)
    /\ UNCHANGED <<page, data, store, nextReq, mounted>>

\* the history fetch fails otherwise (another status, a network error, a
\* malformed body): the catch block starts a new conversation
HistoryFail(req) ==
    /\ req \in InFlight("chat", "history")
    /\ nextReq <= MaxReqs
    /\ LET create == Request(nextReq, "chat", "create", NoId, NoMessage, <<>>, <<>>)
       IN  net' = (net \ {req}) \cup {create}
    /\ nextReq' = nextReq + 1
    /\ Commit(FetchHistoryCatch(Cur))
    /\ last' = Last("historyFail", req)
    /\ UNCHANGED <<page, data, store, mounted>>

\* a success that abandons the sends in flight
CreateOk_CancelsSends(req) ==
    /\ req \in InFlight("chat", "create")
    /\ net' = {r \in net \ {req} : r.kind # "send"}
    /\ Commit(StartNewConversationOk(Cur, NewConversationId(req.rid)))
    /\ store' = NewConversationId(req.rid)
    /\ last' = Last("createOk", req)
    /\ UNCHANGED <<page, data, nextReq, mounted>>

\* the create request of startNewConversation answers 200
CreateOk(req) ==
    /\ req \in InFlight("chat", "create")
    /\ net' = net \ {req}
    /\ Commit(StartNewConversationOk(Cur, NewConversationId(req.rid)))
    /\ store' = NewConversationId(req.rid)
    /\ last' = Last("createOk", req)
    /\ UNCHANGED <<page, data, nextReq, mounted>>

\* a failure that leaves the stored id in place
CreateFail_KeepsStore(req) ==
    /\ req \in InFlight("chat", "create")
    /\ net' = net \ {req}
    /\ Commit(StartNewConversationFail(Cur))
    /\ last' = Last("createFail", req)
    /\ UNCHANGED <<page, data, store, nextReq, mounted>>

\* the create request of startNewConversation fails
CreateFail(req) ==
    /\ req \in InFlight("chat", "create")
    /\ net' = net \ {req}
    /\ Commit(StartNewConversationFail(Cur))
    /\ store' = NoId
    /\ last' = Last("createFail", req)
    /\ UNCHANGED <<page, data, nextReq, mounted>>

\* the send request answers 200
SendOk(req, payload) ==
    /\ req \in InFlight("chat", "send")
    /\ net' = net \ {req}
    /\ Commit(HandleSendMessageOk(Cur, payload))
    /\ last' = LastWith("sendOk", req, <<payload>>)
    /\ UNCHANGED <<page, data, store, nextReq, mounted>>

\* a failure handler that sends the message again
SendFail_Retries(req, resp) ==
    /\ req \in InFlight("chat", "send")
    /\ nextReq <= MaxReqs
    /\ net' = (net \ {req}) \cup {[req EXCEPT !.rid = nextReq]}
    /\ nextReq' = nextReq + 1
    /\ Commit(HandleSendMessageFail(Cur, req, resp))
    /\ last' = LastWith("sendFail", req, <<resp>>)
    /\ UNCHANGED <<page, data, store, mounted>>

\* the send request fails
SendFail(req, resp) ==
    /\ req \in InFlight("chat", "send")
    /\ net' = net \ {req}
    /\ Commit(HandleSendMessageFail(Cur, req, resp))
    /\ last' = LastWith("sendFail", req, <<resp>>)
    /\ UNCHANGED <<page, data, store, nextReq, mounted>>

----------------------------------------------------------------------------
(* Specifications *)

\* what can happen on the intake form, and to its requests
LandingNext ==
    \/ \E f \in Fields, v \in FieldValues : SetData(f, v)
    \/ HandleSubmit
    \/ \E req \in net : HandleSubmitOk(req)
    \/ \E req \in net : HandleSubmitFail(req)

\* what can happen on the chat page, and to its requests
ChatNext ==
    \/ MountEffect
    \/ Reload
    \/ \E t \in TypedTexts : ChangeInput(t)
    \/ ClickSend
    \/ ClickNewChat
    \/ \E req \in net, payload \in HistoryPayloads : HistoryOk(req, payload)
    \/ \E req \in net : HistoryNotFound(req)
    \/ \E req \in net : HistoryFail(req)
    \/ \E req \in net : CreateOk(req)
    \/ \E req \in net : CreateFail(req)
    \/ \E req \in net : \E payload \in SendPayloads(req.rid) : SendOk(req, payload)
    \/ \E req \in net, resp \in SendFailures : SendFail(req, resp)

Next == LandingNext \/ ChatNext

\* some request of the chat page settles and its continuation runs
ChatCompletion ==
    \E req \in net :
        \/ \E payload \in HistoryPayloads : HistoryOk(req, payload)
        \/ HistoryNotFound(req)
        \/ HistoryFail(req)
        \/ CreateOk(req)
        \/ CreateFail(req)
        \/ \E payload \in SendPayloads(req.rid) : SendOk(req, payload)
        \/ \E resp \in SendFailures : SendFail(req, resp)

\* the user's interleavings with the network
Spec == Init /\ [][Next]_vars

\* the same, with handleSendMessage also called when the form would not
\* submit (a submit event dispatched on the form by hand)
NextCalled == Next \/ CallHandleSendMessage

SpecCalled == Init /\ [][NextCalled]_vars

\* the chat page opened directly
InitChat == Init /\ page = "chat"

\* the chat page alone: the user's clicks and the completions of the
\* requests the page itself issued
SpecChat == InitChat /\ [][ChatNext]_vars

\* the same, where a request in flight does not stay in flight forever
SpecFair == SpecChat /\ WF_vars(ChatCompletion)

----------------------------------------------------------------------------
(* Claims *)

ChatRequests == {r \in net : r.owner = "chat"}

Ids(msgs) == {msgs[i].id : i \in 1..Len(msgs)}

\* C1: isLoading is true exactly when a request of the chat page (history,
\* create or send) is in flight.
C1_LoadingIffInFlight ==
    isLoading <=> (ChatRequests # {})

\* C2: at most one request of the chat page is in flight, and while one is,
\* the Send and New Chat triggers are disabled.
C2_OneRequestAtATime ==
    /\ Cardinality(ChatRequests) <= 1
    /\ ChatRequests # {} => ~SendEnabled(Cur) /\ ~NewChatEnabled(Cur)

\* C3: after a failed send the transcript is the transcript just before that
\* send, the input holds the text as typed, error is a non-empty message, and
\* the step changed neither conversationId nor the stored id.
C3_SendFailureRollsBack ==
    /\ [](last.op = "sendFail" =>
            /\ messages = last.req.before
            /\ userInput = last.req.currentInput
            /\ error \notin {Null, ""})
    /\ [][last'.op = "sendFail" => UNCHANGED <<conversationId, store>>]_vars

\* a step that runs handleSendMessage
SendHandlerStep == last'.op = "handleSendMessage" /\ vars' # vars

\* C4: handleSendMessage with blank input or without a conversation id
\* issues no request and changes no state.
C4_RejectedSendIsNoOp ==
    [][(last'.op = "handleSendMessage"
          /\ (Trim(userInput) = <<>> \/ conversationId = NoId))
        => /\ net' = net
           /\ UNCHANGED <<messages, userInput, isLoading, error,
                          conversationId, store>>]_vars

\* C4 witness: the handler ran with text typed but no conversation id
C4_Witness ==
    /\ last.op = "handleSendMessage"
    /\ last.req = NoRequest
    /\ conversationId = NoId
    /\ Trim(userInput) # <<>>

\* C5: an accepted handleSendMessage appends exactly one user message with a
\* fresh id and the trimmed text, clears the input, sets isLoading, clears
\* error, and issues exactly one send request with the trimmed text to the
\* conversation id of submit time.
C5_AcceptedSendIsOptimistic ==
    [][(SendHandlerStep /\ Trim(userInput) # <<>> /\ conversationId # NoId)
        => /\ Len(messages') = Len(messages) + 1
           /\ SubSeq(messages', 1, Len(messages)) = messages
           /\ LET m == messages'[Len(messages')]
              IN  /\ m.sender = "user"
                  /\ m.content = Trim(userInput)
                  /\ m.id \notin Ids(messages)
                  /\ \A r \in net : r.userMessage.id # m.id
                  /\ \E req \in net' \ net :
                        /\ net' = net \cup {req}
                        /\ req.kind = "send" /\ req.owner = "chat"
                        /\ req.conv = conversationId
                        /\ req.userMessage.content = Trim(userInput)
                        /\ req.userMessage.id = m.id
           /\ userInput' = <<>>
           /\ isLoading'
           /\ error' = Null]_vars

\* C5 witness: a send was accepted whose typed text differs from its trimmed
\* text, on top of a transcript that already held messages
C5_Witness ==
    /\ last.op = "handleSendMessage"
    /\ last.req \in net
    /\ last.req.currentInput # last.req.userMessage.content
    /\ last.req.before # <<>>
    /\ Len(messages) = Len(last.req.before) + 1

\* C6: after a successful send the transcript ends with the optimistic user
\* message of that send followed by one assistant message built from the
\* payload, the input is empty and isLoading is false.
C6_ReplyFollowsItsMessage ==
    last.op = "sendOk" =>
        /\ Len(messages) >= 2
        /\ messages[Len(messages) - 1] = last.req.userMessage
        /\ LET m == messages[Len(messages)]
           IN  /\ m.sender = "assistant"
               /\ \E payload \in SendPayloads(last.req.rid) :
                     /\ m.id = payload.id
                     /\ m.content = payload.content
                     /\ m.timestamp = payload.timestamp
                     /\ m.attachment = OrNull(payload.attachment)
        /\ userInput = <<>>
        /\ ~isLoading

\* C7: after a history fetch failed for a reason other than 404, error holds
\* the history-failure message, the transcript is empty and exactly one
\* create request is in flight.
C7_HistoryFailureReported ==
    last.op = "historyFail" =>
        /\ error = "Failed to load message history. Starting a new chat."
        /\ messages = <<>>
        /\ Cardinality(InFlight("chat", "create")) = 1

\* C8: when conversationId becomes a newly created id the transcript is
\* empty, and a send's response is applied to the transcript only while the
\* conversation id it was sent under is still current.
C8_NewConversationStartsEmpty ==
    /\ last.op = "createOk" => messages = <<>>
    /\ last.op \in {"sendOk", "sendFail"} => last.req.conv = conversationId

\* C9: after a create request succeeded, the conversation id in use is the
\* payload's conversation_id and localStorage holds it.
C9_CreatedIdAdoptedAndStored ==
    /\ last.op = "createOk" =>
          /\ conversationId = NewConversationId(last.req.rid)
          /\ store = NewConversationId(last.req.rid)
    /\ last.op = "handleSubmitOk" =>
          store = NewConversationId(last.req.rid)

\* C9 witness: startNewConversation succeeded over an id stored earlier
C9_Witness ==
    /\ last.op = "createOk"
    /\ conversationId # StoredId
    /\ conversationId # NoId

\* C10: after startNewConversation failed, error is non-empty, conversationId
\* and the stored id are absent and isLoading is false; a reload of the page
\* in that state keeps the store empty, and a mount that finds no stored id
\* issues no history fetch.
C10_CreateFailureClearsId ==
    /\ [](last.op = "createFail" =>
            /\ error \notin {Null, ""}
            /\ conversationId = NoId
            /\ store = NoId
            /\ ~isLoading)
    /\ [][(last.op = "createFail" /\ last'.op = "reload") =>
            store' = NoId /\ net' = {}]_vars
    /\ [][(last'.op = "mount" /\ ~mounted /\ store = NoId) =>
            /\ net' = net
            /\ InFlight("chat", "history")' = {}
            /\ conversationId' = NoId]_vars

\* C10 witness: startNewConversation failed when an id was in use
C10_Witness ==
    /\ last.op = "createFail"
    /\ store = NoId
    /\ error = "Could not start new conversation."

\* C11: the mount effect with a stored id sets conversationId to it and
\* issues exactly one history fetch for it; with none stored it issues no
\* request and leaves conversationId absent, and from then on conversationId
\* stays absent, no request of the chat page is in flight and Send is
\* disabled until New Chat is clicked.
C11_MountRestoresOrWaits ==
    /\ [][(last'.op = "mount" /\ ~mounted) =>
            IF store # NoId
            THEN /\ conversationId' = store
                 /\ \E req \in net' \ net :
                       /\ net' = net \cup {req}
                       /\ req.owner = "chat" /\ req.kind = "history"
                       /\ req.conv = store
            ELSE net' = net /\ conversationId' = NoId]_vars
    /\ [][(mounted /\ conversationId = NoId /\ ChatRequests = {}
             /\ last'.op \notin {"startNewConversation", "reload"})
          => conversationId' = NoId /\ ChatRequests' = {}]_vars
    /\ [](conversationId = NoId => ~SendEnabled(Cur))

\* C11 witness: the page mounted with nothing stored and waits
C11_Witness ==
    /\ last.op = "mount"
    /\ last.req = NoRequest
    /\ store = NoId
    /\ conversationId = NoId
    /\ ChatRequests = {}

\* C12: a 404 from the history fetch leaves an empty transcript, no error
\* and isLoading false, issues no request, and changes neither
\* conversationId (the id that was fetched) nor the stored id.
C12_NotFoundResetsQuietly ==
    [][last'.op = "historyNotFound" =>
         /\ messages' = <<>>
         /\ error' = Null
         /\ ~isLoading'
         /\ net' = net \ {last'.req}
         /\ InFlight("chat", "create")' = {}
         /\ UNCHANGED <<conversationId, store>>
         /\ conversationId' = last'.req.conv]_vars

\* C12 witness: the history fetch of the stored id answered 404
C12_Witness ==
    /\ last.op = "historyNotFound"
    /\ conversationId = StoredId
    /\ store = StoredId
    /\ messages = <<>>

\* C13: submitting the intake form with a field that is empty after trimming
\* issues no request, leaves the store, the page and the form data as they
\* are, and alerts the user.
C13_IncompleteFormIsRejected ==
    [][(page = "landing" /\ last'.op \in {"alert", "handleSubmit"}
          /\ \E f \in Fields : Trim(data[f]) = <<>>)
        => /\ net' = net
           /\ UNCHANGED <<store, page, data, nextReq>>
           /\ Alerted' # Null]_vars

\* C13 witness: the form was submitted with exactly one field blank, that
\* field holding only a space
C13_Witness ==
    /\ last.op = "alert"
    /\ page = "landing"
    /\ net = {}
    /\ \E f \in Fields :
          /\ data[f] = <<SP>>
          /\ \A g \in Fields \ {f} : Trim(data[g]) # <<>>

\* C14: after the intake form's creation request failed the stored id is
\* removed, the error is shown to the user, the page is not changed and no
\* request is issued.
C14_IntakeFailureReported ==
    /\ [](last.op = "handleSubmitFail" => store = NoId /\ Alerted # Null)
    /\ [][last'.op = "handleSubmitFail" =>
            page' = page /\ net' = net \ {last'.req}]_vars

\* C15: a successful intake submission stores the returned id and shows the
\* chat page; the stored id is not changed before the chat page's mount
\* effect runs; and the mount effect adopts the stored id and fetches its
\* history.
C15_ChatAdoptsSubmittedId ==
    /\ [][(last'.op = "handleSubmitOk" /\ page = "landing") =>
            /\ store' = NewConversationId(last'.req.rid)
            /\ page' = "chat" /\ ~mounted']_vars
    /\ [][(page = "chat" /\ ~mounted) => store' = store]_vars
    /\ [][(last'.op = "mount" /\ ~mounted /\ store # NoId) =>
            /\ conversationId' = store
            /\ \E req \in net' \ net :
                  req.kind = "history" /\ req.conv = store]_vars

\* C16: a loading chat page eventually stops loading, with New Chat enabled;
\* and right after a failed history fetch, create or send, New Chat is
\* enabled and Send is enabled whenever there is a conversation id and the
\* input is not blank.
C16_ErrorsLeaveRetryPossible ==
    /\ isLoading ~> (~isLoading /\ NewChatEnabled(Cur))
    /\ [](last.op \in {"historyFail", "createFail", "sendFail"} =>
            /\ NewChatEnabled(Cur)
            /\ (conversationId # NoId /\ Trim(userInput) # <<>>)
                  => SendEnabled(Cur))

\* C16 witness: a send failed and the restored text can be sent again
C16_Witness ==
    /\ last.op = "sendFail"
    /\ conversationId # NoId
    /\ userInput = last.req.currentInput
    /\ SendEnabled(Cur)
    /\ ChatRequests = {}

\* C17: the messages of the transcript have pairwise distinct ids.
C17_MessageIdsUnique ==
    \A i, j \in 1..Len(messages) : i # j => messages[i].id # messages[j].id

\* C17 witness: a transcript holding history messages, an optimistic message
\* and an assistant reply
C17_Witness ==
    /\ Len(messages) >= 4
    /\ \E i, j, k \in 1..Len(messages) :
          /\ messages[i].id[1] = "hist"
          /\ messages[j].id[1] = "uuid"
          /\ messages[k].id[1] = "srv"

\* C18: a successful history fetch sets the transcript to the payload it
\* carried: same length and order, id, sender, content and timestamp copied,
\* the attachment copied or null when the payload has none.
C18_HistoryReplacesTranscript ==
    [][last'.op = "historyOk" =>
         LET payload == last'.payload
         IN  /\ Len(messages') = Len(payload)
             /\ \A i \in 1..Len(payload) :
                   /\ messages'[i].id = payload[i].id
                   /\ messages'[i].sender = payload[i].sender
                   /\ messages'[i].content = payload[i].content
                   /\ messages'[i].timestamp = payload[i].timestamp
                   /\ messages'[i].attachment =
                         IF payload[i].attachment = Undefined THEN Null
                         ELSE payload[i].attachment]_vars

\* C18 witness: a history of two messages, one with an attachment, was loaded
C18_Witness ==
    /\ last.op = "historyOk"
    /\ Len(messages) = 2
    /\ messages[1].attachment = Null
    /\ messages[2].attachment = "http://media/1"

\* C19: a create that succeeds leaves the sends in flight, and a send's
\* response is applied to the transcript whatever the conversation id then
\* is: a success appends the assistant message, a failure removes the
\* optimistic message and sets error.
C19_LateResponseIsApplied ==
    /\ [][last'.op = "createOk" =>
            {r \in net : r.kind = "send"} \subseteq net']_vars
    /\ [][last'.op = "sendOk" =>
            /\ Len(messages') = Len(messages) + 1
            /\ messages'[Len(messages')].id = <<"srv", last'.req.rid>>]_vars
    /\ [][last'.op = "sendFail" =>
            /\ messages' = Without(messages, last'.req.userMessage.id)
            /\ error' # Null]_vars

\* C19 witness: the reply to a send issued under one conversation id was
\* appended after conversationId had become another id
C19_Witness ==
    /\ last.op = "sendOk"
    /\ conversationId # NoId
    /\ last.req.conv # NoId
    /\ last.req.conv # conversationId
    /\ messages # <<>>
    /\ messages[Len(messages)].sender = "assistant"

\* C20: a step issues at most one request; a send request is issued only by
\* an accepted handleSendMessage, a history fetch only by the mount effect,
\* a create of the chat page only by a New Chat click or by a failed
\* history fetch, each exactly one; every other continuation issues none.
C20_NoAutomaticRetry ==
    [][/\ Cardinality(net' \ net) <= 1
       /\ \A r \in net' \ net :
             /\ r.rid = nextReq /\ nextReq' = nextReq + 1
             /\ (r.owner = "chat" /\ r.kind = "send")
                   => last'.op = "handleSendMessage"
             /\ (r.owner = "chat" /\ r.kind = "history")
                   => last'.op = "mount"
             /\ (r.owner = "chat" /\ r.kind = "create")
                   => last'.op \in {"startNewConversation", "historyFail"}
       /\ last'.op \in {"startNewConversation", "historyFail"}
             => \E r \in net' \ net : r.owner = "chat" /\ r.kind = "create"
       /\ last'.op \in {"sendFail", "createFail", "sendOk", "createOk",
                        "historyOk", "historyNotFound"}
             => net' \subseteq net]_vars

\* C20 witness: a send failed and nothing is in flight afterwards
C20_Witness ==
    /\ last.op = "sendFail"
    /\ net = {}
    /\ error # Null

\* C21: the stored id is written only by the continuation of a create
\* request that succeeded and removed only by the continuation of a create
\* request that failed; sending a message (its submission, success or
\* failure) and fetching history (the mount effect, success, 404 or another
\* failure with the create it starts) leave the stored id as it is.
C21_StoreChangesOnlyOnCreate ==
    [][/\ store' # store =>
             /\ last'.req.kind = "create"
             /\ last'.req \in net /\ last'.req \notin net'
             /\ \/ last'.op \in {"createOk", "handleSubmitOk"} /\ store' # NoId
                \/ last'.op \in {"createFail", "handleSubmitFail"} /\ store' = NoId
       /\ last'.op \in {"handleSendMessage", "sendOk", "sendFail", "mount",
                        "historyOk", "historyNotFound", "historyFail",
                        "startNewConversation"}
             => store' = store]_vars

\* C21 witness: a send failed under an id that a create had stored, and the
\* store still holds that id
C21_Witness ==
    /\ last.op = "sendFail"
    /\ store = last.req.conv
    /\ store \notin {NoId, StoredId}

\* the body of a failed response parsed as JSON
Parses(resp) == resp.kind = "http" /\ resp.body # "unparseable"

\* the parsed body has a non-empty detail field
HasDetail(resp) ==
    Parses(resp) /\ resp.body \in {"detail", "listdetail"} /\ resp.text # ""

\* C22: after a failed send, error is the detail of the response body when
\* the body parses as JSON with a non-empty detail; the fixed generic message
\* when it does not parse; the message naming the HTTP status when it parses
\* without a detail; for a network failure the thrown message or, if that is
\* empty, the fixed generic message; and error is never empty.
C22_SendErrorTextChosen ==
    last.op = "sendFail" =>
        LET resp == last.payload[1]
        IN  /\ HasDetail(resp) => error = resp.text
            /\ (resp.kind = "http" /\ ~Parses(resp))
                  => error = "Unknown server error during send."
            /\ (Parses(resp) /\ ~HasDetail(resp))
                  => error = HttpErrorText(resp.status)
            /\ resp.kind = "network" =>
                  error = IF resp.text = ""
                          THEN "Failed to get a response. Please try again."
                          ELSE resp.text
            /\ error \notin {Null, ""}

\* C23: once the chat page's mount effect has run, conversationId equals the
\* stored id (both absent or both the same id), whatever the interleaving of
\* New Chat clicks, sends and completions of the page's own requests.
C23_StateMatchesStore ==
    ChatReady => conversationId = store

\* C23 witness: one create of the page succeeded while another create of the
\* page is still in flight, and the id it returned is in use and stored
C23_Witness ==
    /\ ChatReady
    /\ last.op = "createOk"
    /\ InFlight("chat", "create") # {}
    /\ conversationId = NewConversationId(last.req.rid)
    /\ store = conversationId

\* C24: when no send request is in flight, every optimistic user message in
\* the transcript is immediately followed by the assistant reply to its
\* send, and every assistant reply a send appended is immediately preceded by
\* that send's user message.
C24_NoOrphanedMessages ==
    InFlight("chat", "send") = {} =>
        \A i \in 1..Len(messages) :
            /\ messages[i].id[1] = "uuid" =>
                  /\ i < Len(messages)
                  /\ messages[i + 1].id = <<"srv", messages[i].id[2]>>
                  /\ messages[i + 1].sender = "assistant"
            /\ messages[i].id[1] = "srv" =>
                  /\ i > 1
                  /\ messages[i - 1].id = <<"uuid", messages[i].id[2]>>
                  /\ messages[i - 1].sender = "user"

\* C25: at most one creation request of the intake form is in flight; once
\* the chat page is shown no completion of an intake request changes the
\* stored id; and after the chat page's mount effect has run the stored id
\* changes only when a create of the chat page itself settles.
C25_OneIntakeRequestAtATime ==
    /\ [](Cardinality(InFlight("landing", "create")) <= 1)
    /\ [][(page = "chat" /\ last'.op \in {"handleSubmitOk", "handleSubmitFail"})
            => store' = store]_vars
    /\ [][(ChatReady /\ store' # store)
            => last'.op \in {"createOk", "createFail"}]_vars

====
